---- MODULE Spec2Model ----
(***************************************************************************)
(* A model of cryptokit/transaction.py: the Input/Output value tuples, the *)
(* Transaction record with its lazily cached raw bytes and hash, and the   *)
(* disassemble / assemble codec pair.                                      *)
(*                                                                         *)
(* Representation.  A byte string is a sequence over 0..255.  A Python int *)
(* is unbounded; it is kept as its canonical little-endian sequence of     *)
(* base-65536 limbs (no most-significant zero limb, 0 is << >>), so that   *)
(* 0xFFFFFFFF and 64-bit amounts keep their full width.  None is << >> and *)
(* a present optional value x is << x >>.                                  *)
(***************************************************************************)
EXTENDS Integers, Sequences, FiniteSets, TLC

(***************************************************************************)
(* Python ints as limb sequences                                           *)
(***************************************************************************)

\* The Python int of a small model integer i (0 <= i < 2^31).
Num(i) ==
  IF i = 0 THEN << >>
  ELSE IF i < 65536 THEN << i >>
  ELSE << i % 65536, i \div 65536 >>

\* Limb k (from 1) of n, zero beyond its length.
Limb(n, k) == IF k <= Len(n) THEN n[k] ELSE 0

RECURSIVE Normalize(_)
\* Drop most-significant zero limbs.
Normalize(n) ==
  IF n = << >> THEN << >>
  ELSE IF n[Len(n)] = 0 THEN Normalize(SubSeq(n, 1, Len(n) - 1))
  ELSE n

\* A Python int used as a slice bound or a range() count.  Every byte string
\* of the model is shorter than 2^30 bytes, and Python clamps slice bounds to
\* the length of the string, so larger values behave as 2^30 does.
AsIndex(n) ==
  IF Len(n) = 0 THEN 0
  ELSE IF Len(n) = 1 THEN n[1]
  ELSE IF Len(n) = 2 /\ n[2] < 16384 THEN n[1] + 65536 * n[2]
  ELSE 1073741824

(***************************************************************************)
(* Python slicing                                                          *)
(***************************************************************************)

Min(a, b) == IF a <= b THEN a ELSE b

\* s[a:b] for 0 <= a, 0 <= b: bounds are clamped to len(s).
Slice(s, a, b) ==
  IF a >= Min(b, Len(s)) THEN << >> ELSE SubSeq(s, a + 1, Min(b, Len(s)))

\* s[a:]
SliceFrom(s, a) == IF a >= Len(s) THEN << >> ELSE SubSeq(s, a + 1, Len(s))

(***************************************************************************)
(* struct.pack / struct.unpack for the formats the module uses              *)
(***************************************************************************)

\* Number of bytes of a struct format.
Width(fmt) ==
  CASE fmt = "B"  -> 1
    [] fmt = "<H" -> 2
    [] fmt = "<L" -> 4
    [] fmt = "<Q" -> 8

\* Byte i (from 0, least significant first) of n.
ByteOf(n, i) ==
  LET l == Limb(n, (i \div 2) + 1)
  IN  IF i % 2 = 0 THEN l % 256 ELSE l \div 256

\* pack(fmt, n): the little-endian bytes of n.  Every value the model packs
\* is in the range of its format, so struct.error is never raised.
pack(fmt, n) == [i \in 1..Width(fmt) |-> ByteOf(n, i - 1)]

\* The int whose little-endian bytes are data.
FromBytes(data) ==
  Normalize([k \in 1..((Len(data) + 1) \div 2) |->
               data[2 * k - 1] + (IF 2 * k <= Len(data) THEN 256 * data[2 * k] ELSE 0)])

(***************************************************************************)
(* BitcoinEncoding (cryptokit/__init__.py): funpack and the varint codec    *)
(***************************************************************************)

\* funpack(fmt, data): unpack one little-endian unsigned integer; fails
\* (TruncatedInput) unless data holds exactly the format's width.
funpack(fmt, data) ==
  IF Len(data) = Width(fmt)
  THEN [ok |-> TRUE, val |-> FromBytes(data)]
  ELSE [ok |-> FALSE, val |-> << >>]

\* varlen_decode(byte_string): (value, remaining bytes).  The leading byte is
\* the value itself below 0xFD; 0xFD, 0xFE, 0xFF announce 2, 4, 8 bytes.
varlen_decode(bs) ==
  IF bs = << >> THEN [ok |-> FALSE, val |-> << >>, rest |-> << >>]
  ELSE LET w == CASE bs[1] = 253 -> 2
                  [] bs[1] = 254 -> 4
                  [] bs[1] = 255 -> 8
                  [] OTHER       -> 0
       IN  IF w = 0
           THEN [ok |-> TRUE, val |-> Num(bs[1]), rest |-> SliceFrom(bs, 1)]
           ELSE LET fmt == CASE w = 2 -> "<H" [] w = 4 -> "<L" [] OTHER -> "<Q"
                    v   == funpack(fmt, Slice(bs, 1, 1 + w))
                IN  [ok |-> v.ok, val |-> v.val, rest |-> SliceFrom(bs, 1 + w)]

\* varlen_encode(number): the shortest of the four forms.
varlen_encode(n) ==
  IF Len(n) = 0 \/ (Len(n) = 1 /\ n[1] < 253) THEN pack("B", n)
  ELSE IF Len(n) <= 1 THEN << 253 >> \o pack("<H", n)
  ELSE IF Len(n) <= 2 THEN << 254 >> \o pack("<L", n)
  ELSE << 255 >> \o pack("<Q", n)

(***************************************************************************)
(* Input, Output                                                           *)
(***************************************************************************)

Input(prevout_hash, prevout_idx, script_sig, seqno) ==
  [prevout_hash |-> prevout_hash, prevout_idx |-> prevout_idx,
   script_sig |-> script_sig, seqno |-> seqno]

Output(amount, script_pub_key) ==
  [amount |-> amount, script_pub_key |-> script_pub_key]

\* Transaction._nullprev = b'\0' * 32
_nullprev == [i \in 1..32 |-> 0]

RECURSIVE EncodeHeight_be(_, _, _)
\* Mutant: the bytes collected most significant first.
EncodeHeight_be(height, encoded_height, length) ==
  IF height = 0
  THEN [encoded_height |-> encoded_height, length |-> length]
  ELSE EncodeHeight_be(height \div 256,
                       pack("B", Num(height % 256)) \o encoded_height,
                       length + 1)

RECURSIVE EncodeHeight(_, _, _)
\* The while loop of Input.coinbase: divmod by 256 until height is 0.
EncodeHeight(height, encoded_height, length) ==
  IF height = 0
  THEN [encoded_height |-> encoded_height, length |-> length]
  ELSE EncodeHeight(height \div 256,
                    encoded_height \o pack("B", Num(height % 256)),
                    length + 1)

\* Input.coinbase(height, extra_script_sig)
coinbase(height, extra_script_sig) ==
  LET e == EncodeHeight(height, << >>, 0)
      sigscript == pack("B", Num(e.length)) \o e.encoded_height
  IN  Input(_nullprev, << 65535, 65535 >>, sigscript \o extra_script_sig, Num(0))

(***************************************************************************)
(* Transaction: the object, as a record of its attributes                  *)
(***************************************************************************)

None == << >>
Some(x) == << x >>

\* Transaction.__init__(raw): the attributes after construction.
NewTransaction(raw) ==
  [_raw |-> Some(raw), inputs |-> << >>, outputs |-> << >>,
   locktime |-> Num(0), version |-> Num(1), _hash |-> None]

\* What a call leaves behind: the object, the exception raised ("None" when
\* the call returned) and the value returned.
Outcome(self, exc, ret) == [self |-> self, exc |-> exc, ret |-> ret]

RECURSIVE ParseInputs(_, _, _)
\* The input loop of disassemble (lines 81-98): i counts the iterations left.
\* exc is "None" when the loop ran to its end.
ParseInputs(data, i, inputs) ==
  IF i = 0 THEN [exc |-> "None", data |-> data, inputs |-> inputs]
  ELSE
    LET prevout_hash == Slice(data, 0, 32)
        prevout_idx  == funpack("<L", Slice(data, 32, 36))
        ss           == varlen_decode(SliceFrom(data, 36))
        ss_len       == AsIndex(ss.val)
        script_sig   == Slice(ss.rest, 0, ss_len)
        seqno        == funpack("<L", Slice(ss.rest, ss_len, ss_len + 4))
    IN  IF ~prevout_idx.ok \/ ~ss.ok \/ ~seqno.ok
        THEN [exc |-> "TruncatedInput", data |-> data, inputs |-> inputs]
        ELSE ParseInputs(SliceFrom(ss.rest, ss_len + 4), i - 1,
                         Append(inputs, Input(prevout_hash, prevout_idx.val,
                                              script_sig, seqno.val)))

RECURSIVE ParseOutputs_lenient(_, _, _)
\* Mutant: an amount that cannot be read ends the loop instead of the call.
ParseOutputs_lenient(data, i, outputs) ==
  IF i = 0 THEN [exc |-> "None", data |-> data, outputs |-> outputs]
  ELSE
    LET amount    == funpack("<Q", Slice(data, 0, 8))
        ps        == varlen_decode(SliceFrom(data, 8))
        ps_len    == AsIndex(ps.val)
        pk_script == Slice(ps.rest, 0, ps_len)
    IN  IF ~amount.ok
        THEN [exc |-> "None", data |-> data, outputs |-> outputs]
        ELSE IF ~ps.ok
        THEN [exc |-> "TruncatedInput", data |-> data, outputs |-> outputs]
        ELSE ParseOutputs_lenient(SliceFrom(ps.rest, ps_len), i - 1,
                                  Append(outputs, Output(amount.val, pk_script)))

RECURSIVE ParseOutputs(_, _, _)
\* The output loop of disassemble (lines 102-109).
ParseOutputs(data, i, outputs) ==
  IF i = 0 THEN [exc |-> "None", data |-> data, outputs |-> outputs]
  ELSE
    LET amount    == funpack("<Q", Slice(data, 0, 8))
        ps        == varlen_decode(SliceFrom(data, 8))
        ps_len    == AsIndex(ps.val)
        pk_script == Slice(ps.rest, 0, ps_len)
    IN  IF ~amount.ok \/ ~ps.ok
        THEN [exc |-> "TruncatedInput", data |-> data, outputs |-> outputs]
        ELSE ParseOutputs(SliceFrom(ps.rest, ps_len), i - 1,
                          Append(outputs, Output(amount.val, pk_script)))

\* Mutant: at least the lock time is left.
NoTrailingData_atleast(data) == Len(data) >= 4

\* assert len(data) == 4 (line 115): data is what is left when the lock time
\* is read.
NoTrailingData(data) == Len(data) = 4

\* Transaction.disassemble(raw, dump_raw), fees left at None.  raw = << >>
\* stands for a call without raw (None and b'' are both falsy at line 69).
\* Every assignment to self is made at the place the code makes it, so the
\* object a failing call leaves behind is the one the code leaves behind.
disassemble(self, raw, dump_raw) ==
  LET s1 == IF raw # << >> THEN [self EXCEPT !._raw = Some(raw)] ELSE self
  IN
  IF s1._raw = None THEN Outcome(s1, "TypeError", None)
  ELSE
  LET data0   == s1._raw[1]
      version == funpack("<L", Slice(data0, 0, 4))
  IN
  IF ~version.ok THEN Outcome(s1, "TruncatedInput", None)
  ELSE
  LET s2 == [s1 EXCEPT !.version = version.val]
      ic == varlen_decode(SliceFrom(data0, 4))
  IN
  IF ~ic.ok THEN Outcome(s2, "TruncatedInput", None)
  ELSE
  LET pin == ParseInputs(ic.rest, AsIndex(ic.val), << >>)
      s3  == [s2 EXCEPT !.inputs = pin.inputs]
  IN
  IF pin.exc # "None" THEN Outcome(s3, pin.exc, None)
  ELSE
  LET oc == varlen_decode(pin.data)
  IN
  IF ~oc.ok THEN Outcome(s3, "TruncatedInput", None)
  ELSE
  LET pout == ParseOutputs(oc.rest, AsIndex(oc.val), << >>)
      s4   == [s3 EXCEPT !.outputs = pout.outputs]
  IN
  IF pout.exc # "None" THEN Outcome(s4, pout.exc, None)
  ELSE
  LET locktime == funpack("<L", Slice(pout.data, 0, 4))
  IN
  IF ~locktime.ok THEN Outcome(s4, "TruncatedInput", None)
  ELSE
  LET s5 == [s4 EXCEPT !.locktime = locktime.val, !._hash = None]
  IN
  IF ~NoTrailingData(pout.data) THEN Outcome(s5, "MalformedInput", None)
  ELSE
  LET s6 == IF dump_raw THEN [s5 EXCEPT !._raw = None] ELSE s5
  IN  Outcome(s6, "None", Some("self"))

RECURSIVE PackInputs_first(_, _, _, _)
\* Mutant: the split point is set once, at the first input.
PackInputs_first(inputs, k, data, split_point) ==
  IF k > Len(inputs) THEN [data |-> data, split_point |-> split_point]
  ELSE
    LET inp  == inputs[k]
        head == data \o inp.prevout_hash \o pack("<L", inp.prevout_idx)
                     \o varlen_encode(Num(Len(inp.script_sig)))
    IN  PackInputs_first(inputs, k + 1,
                         head \o inp.script_sig \o pack("<L", inp.seqno),
                         IF split_point = None THEN Some(Len(head)) ELSE split_point)

RECURSIVE PackInputs(_, _, _, _)
\* The input loop of assemble (lines 138-144) from input k on: data grows and
\* split_point is overwritten in every iteration.
PackInputs(inputs, k, data, split_point) ==
  IF k > Len(inputs) THEN [data |-> data, split_point |-> split_point]
  ELSE
    LET inp  == inputs[k]
        head == data \o inp.prevout_hash \o pack("<L", inp.prevout_idx)
                     \o varlen_encode(Num(Len(inp.script_sig)))
    IN  PackInputs(inputs, k + 1,
                   head \o inp.script_sig \o pack("<L", inp.seqno),
                   Some(Len(head)))

RECURSIVE PackOutputs_narrow(_, _, _)
\* Mutant: the amount packed as a 32-bit integer.
PackOutputs_narrow(outputs, k, data) ==
  IF k > Len(outputs) THEN data
  ELSE
    LET out == outputs[k]
    IN  PackOutputs_narrow(outputs, k + 1,
                           data \o pack("<L", out.amount)
                                \o varlen_encode(Num(Len(out.script_pub_key)))
                                \o out.script_pub_key)

RECURSIVE PackOutputs(_, _, _)
\* The output loop of assemble (lines 147-150).
PackOutputs(outputs, k, data) ==
  IF k > Len(outputs) THEN data
  ELSE
    LET out == outputs[k]
    IN  PackOutputs(outputs, k + 1,
                    data \o pack("<Q", out.amount)
                         \o varlen_encode(Num(Len(out.script_pub_key)))
                         \o out.script_pub_key)

\* The bytes assemble builds (lines 134-152) and the split point it is left
\* with: None when there is no input.
Packed(self) ==
  LET ins == PackInputs(self.inputs, 1,
                        pack("<L", self.version) \o varlen_encode(Num(Len(self.inputs))),
                        None)
      outs == PackOutputs(self.outputs, 1,
                          ins.data \o varlen_encode(Num(Len(self.outputs))))
  IN  [data |-> outs \o pack("<L", self.locktime), split_point |-> ins.split_point]

\* data[:split_point], data[split_point:] (line 158); a bound of None is no
\* bound, so both halves are the whole of data.
SplitAt(data, split_point) ==
  IF split_point = None THEN << data, data >>
  ELSE << Slice(data, 0, split_point[1]), SliceFrom(data, split_point[1]) >>

\* Mutant: the cached hash survives.
assemble_keephash(self, split) ==
  LET p  == Packed(self)
      s1 == [self EXCEPT !._raw = Some(p.data)]
  IN  Outcome(s1, "None",
              Some(IF split THEN SplitAt(p.data, p.split_point) ELSE p.data))

\* Transaction.assemble(split)
assemble(self, split) ==
  LET p  == Packed(self)
      s1 == [self EXCEPT !._raw = Some(p.data), !._hash = None]
  IN  Outcome(s1, "None",
              Some(IF split THEN SplitAt(p.data, p.split_point) ELSE p.data))

\* Transaction.raw
raw(self) ==
  LET s1 == IF self._raw = None THEN assemble(self, FALSE).self ELSE self
  IN  Outcome(s1, "None", s1._raw)

\* sys.byteorder of the host: a little-endian one.  The test of line 172,
\* byteorder is 'big', compares the identity of this str with a literal's;
\* CPython answers False on a big-endian host as well, so the digest is
\* stored as hashlib returns it there too.
byteorder == "little"

\* hashlib.sha256(b).digest(): an uninterpreted, collision-free digest.
sha256(b) == [sha256 |-> b]

\* digest[::-1]
Reversed(digest) == [reversed |-> digest]

\* Transaction.hash: sha256 of a _raw of None is a TypeError.
hash(self) ==
  IF self._hash # None THEN Outcome(self, "None", self._hash)
  ELSE IF self._raw = None THEN Outcome(self, "TypeError", None)
  ELSE
    LET digest == sha256(sha256(self._raw[1]))
        stored == IF byteorder = "big" THEN Reversed(digest) ELSE digest
        s1     == [self EXCEPT !._hash = Some(stored)]
    IN  Outcome(s1, "None", s1._hash)

\* Mutant: every input has to be null.
is_coinbase_all(self) ==
  IF self.inputs = << >> THEN Outcome(self, "IndexError", None)
  ELSE Outcome(self, "None",
               Some(\A k \in 1..Len(self.inputs) :
                      self.inputs[k].prevout_hash = _nullprev))

\* Transaction.is_coinbase: inputs[0] of an empty list is an IndexError.
is_coinbase(self) ==
  IF self.inputs = << >> THEN Outcome(self, "IndexError", None)
  ELSE Outcome(self, "None", Some(self.inputs[1].prevout_hash = _nullprev))

(***************************************************************************)
(* The values the calls are made with                                      *)
(***************************************************************************)

\* Appends to inputs and outputs stop at these lengths.
MaxInputs == 2
MaxOutputs == 1
\* Input.coinbase is built for every height up to MaxHeight (and a few
\* larger ones).
MaxHeight == 300

HashA == [i \in 1..32 |-> i]
\* All zero but the last byte: not the null hash.
HashB == [i \in 1..32 |-> IF i = 32 THEN 1 ELSE 0]

InA == Input(HashA, Num(1), << 171, 205 >>, << 65535, 65535 >>)
InB == Input(HashB, Num(0), << >>, Num(0))
\* An input whose script takes a three-byte length prefix.
InLong == Input(HashA, Num(0), [i \in 1..253 |-> i % 256], Num(7))
\* The input of the truncation example: a 40-byte scriptSig.
In40 == Input(HashB, Num(2), [i \in 1..40 |-> 100 + i], Num(0))

OutA == Output(Num(5000), << 118, 169 >>)
OutB == Output(<< 65535, 65535, 65535, 65535 >>, << >>)

Fields(version, inputs, outputs, locktime) ==
  [version |-> version, inputs |-> inputs, outputs |-> outputs, locktime |-> locktime]

TxA == Fields(Num(1), << InA >>, << OutA >>, Num(0))
TxB == Fields(Num(2), << coinbase(1, << >>), InB >>, << OutB, OutA >>, << 772, 258 >>)
TxLong == Fields(Num(1), << InLong >>, << >>, Num(0))
Tx40 == Fields(Num(1), << In40 >>, << OutA >>, Num(0))

\* A count or length n on the wire: in its shortest form (marker 0), or in
\* the longer form the marker byte 0xFD, 0xFE or 0xFF announces.
WireVarint(n, marker) ==
  CASE marker = 253 -> << 253 >> \o pack("<H", n)
    [] marker = 254 -> << 254 >> \o pack("<L", n)
    [] marker = 255 -> << 255 >> \o pack("<Q", n)
    [] OTHER        -> varlen_encode(n)

RECURSIVE WireInputs(_, _)
WireInputs(inputs, marker) ==
  IF inputs = << >> THEN << >>
  ELSE LET inp == Head(inputs)
       IN  inp.prevout_hash \o pack("<L", inp.prevout_idx)
             \o WireVarint(Num(Len(inp.script_sig)), marker) \o inp.script_sig
             \o pack("<L", inp.seqno) \o WireInputs(Tail(inputs), marker)

RECURSIVE WireOutputs(_, _)
WireOutputs(outputs, marker) ==
  IF outputs = << >> THEN << >>
  ELSE LET out == Head(outputs)
       IN  pack("<Q", out.amount)
             \o WireVarint(Num(Len(out.script_pub_key)), marker) \o out.script_pub_key
             \o WireOutputs(Tail(outputs), marker)

\* The wire format of a transaction, every count and length written in the
\* form the marker selects.
WireForm(tx, marker) ==
  pack("<L", tx.version)
    \o WireVarint(Num(Len(tx.inputs)), marker) \o WireInputs(tx.inputs, marker)
    \o WireVarint(Num(Len(tx.outputs)), marker) \o WireOutputs(tx.outputs, marker)
    \o pack("<L", tx.locktime)

\* Well-formed buffers whose counts and lengths are in their shortest form.
Canonical == {WireForm(tx, 0) : tx \in {TxA, TxB, TxLong, Tx40}}

\* Well-formed buffers whose counts and lengths are in a longer form.
NonCanonical == {WireForm(TxA, m) : m \in {253, 254, 255}}

WellFormed == Canonical \cup NonCanonical

\* Every buffer that ends inside a well-formed one; among them Tx40 cut
\* 10 bytes into its 40-byte scriptSig.
Truncated ==
  {SubSeq(w, 1, n) : n \in 1..(Len(WireForm(TxA, 0)) - 1), w \in {WireForm(TxA, 0)}}
    \cup {SubSeq(WireForm(Tx40, 0), 1, 4 + 1 + 32 + 4 + 1 + 10)}
    \cup {SubSeq(WireForm(TxA, 254), 1, 7)}

\* A well-formed buffer followed by extra bytes.
Trailing ==
  {w \o t : w \in {WireForm(TxA, 0), WireForm(TxB, 0), WireForm(TxA, 253)},
            t \in {<< 0 >>, << 1, 2 >>}}

\* The raw arguments of disassemble; << >> is a call without raw.
Raws == WellFormed \cup Truncated \cup Trailing \cup {<< >>}

\* The few of them used where every other call is made as well.
SomeRaws ==
  {WireForm(TxA, 0), WireForm(TxB, 0), << >>}

\* The raw arguments of the constructor: bytes(None) under Python 2 is
\* b'None'; otherwise a buffer to disassemble later.
CtorRaws == {<< 78, 111, 110, 101 >>, WireForm(TxA, 0)}

Versions == {Num(2)}
Locktimes == {<< 772, 258 >>}
NewInputs == {coinbase(256, << >>)}
NewOutputs == {OutB}
Heights == 0..MaxHeight \cup {65535, 65536, 16777215, 16777216, 2147483647}
Extras == {<< >>, << 7, 0 >>}

(***************************************************************************)
(* The state: one Transaction object and the last call made on it          *)
(***************************************************************************)

VARIABLES
  version, inputs, outputs, locktime, _raw, _hash,  \* the object's attributes
  op,        \* the last call: its name and arguments
  exc,       \* the exception it raised, "None" when it returned
  ret,       \* the value it returned (None when it raised)
  parsed,    \* history: the bytes the last successful disassemble read, None
             \* once a field was assigned or a disassemble failed
  mutated,   \* history: a field was assigned after construction
  lastHash   \* history: what the last hash access returned, None once a
             \* field was assigned or disassemble ran

attrs == << version, inputs, outputs, locktime, _raw, _hash >>
vars == << version, inputs, outputs, locktime, _raw, _hash, op, exc, ret,
           parsed, mutated, lastHash >>

\* The object as the record the operations work on.
Self ==
  [_raw |-> _raw, inputs |-> inputs, outputs |-> outputs,
   locktime |-> locktime, version |-> version, _hash |-> _hash]

Call(name, rawArg, flag, height) ==
  [name |-> name, raw |-> rawArg, flag |-> flag, height |-> height]

\* The object and the call's result become the next state.
Becomes(o, call) ==
  /\ version' = o.self.version
  /\ inputs' = o.self.inputs
  /\ outputs' = o.self.outputs
  /\ locktime' = o.self.locktime
  /\ _raw' = o.self._raw
  /\ _hash' = o.self._hash
  /\ op' = call
  /\ exc' = o.exc
  /\ ret' = o.ret

Init ==
  /\ \E r \in CtorRaws :
       LET t == NewTransaction(r)
       IN  /\ version = t.version /\ inputs = t.inputs /\ outputs = t.outputs
           /\ locktime = t.locktime /\ _raw = t._raw /\ _hash = t._hash
           /\ op = Call("__init__", r, FALSE, 0)
  /\ exc = "None"
  /\ ret = None
  /\ parsed = None
  /\ mutated = FALSE
  /\ lastHash = None

Disassemble(r, dump_raw) ==
  LET o == disassemble(Self, r, dump_raw)
  IN  /\ Becomes(o, Call("disassemble", r, dump_raw, 0))
      /\ parsed' = IF o.exc = "None" THEN (IF r # << >> THEN Some(r) ELSE _raw)
                   ELSE None
      /\ lastHash' = None
      /\ UNCHANGED mutated

Assemble(split) ==
  /\ Becomes(assemble(Self, split), Call("assemble", << >>, split, 0))
  /\ UNCHANGED << parsed, mutated, lastHash >>

Raw ==
  /\ Becomes(raw(Self), Call("raw", << >>, FALSE, 0))
  /\ UNCHANGED << parsed, mutated, lastHash >>

Hash ==
  LET o == hash(Self)
  IN  /\ Becomes(o, Call("hash", << >>, FALSE, 0))
      /\ lastHash' = IF o.exc = "None" THEN o.ret ELSE lastHash
      /\ UNCHANGED << parsed, mutated >>

IsCoinbase ==
  /\ Becomes(is_coinbase(Self), Call("is_coinbase", << >>, FALSE, 0))
  /\ UNCHANGED << parsed, mutated, lastHash >>

\* A field assignment by the caller: the attributes are public (lines 53-58).
Assign(s, name) ==
  /\ Becomes(Outcome(s, "None", None), Call(name, << >>, FALSE, 0))
  /\ parsed' = None
  /\ mutated' = TRUE
  /\ lastHash' = None

SetVersion(v) == v # version /\ Assign([Self EXCEPT !.version = v], "version=")

SetLocktime(l) == l # locktime /\ Assign([Self EXCEPT !.locktime = l], "locktime=")

AppendInput(i) ==
  /\ Len(inputs) < MaxInputs
  /\ Assign([Self EXCEPT !.inputs = Append(inputs, i)], "inputs.append")

AppendOutput(out) ==
  /\ Len(outputs) < MaxOutputs
  /\ Assign([Self EXCEPT !.outputs = Append(outputs, out)], "outputs.append")

Next ==
  \/ \E r \in SomeRaws, dump_raw \in BOOLEAN : Disassemble(r, dump_raw)
  \/ \E split \in BOOLEAN : Assemble(split)
  \/ Raw
  \/ Hash
  \/ IsCoinbase
  \/ \E v \in Versions : SetVersion(v)
  \/ \E l \in Locktimes : SetLocktime(l)
  \/ \E i \in NewInputs : AppendInput(i)
  \/ \E out \in NewOutputs : AppendOutput(out)

Spec == Init /\ [][Next]_vars

\* The codec alone, on every buffer: parse, serialize and the two cached
\* properties.
NextCodec ==
  \/ \E r \in Raws, dump_raw \in BOOLEAN : Disassemble(r, dump_raw)
  \/ \E split \in BOOLEAN : Assemble(split)

SpecCodec == Init /\ [][NextCodec]_vars

\* Input.coinbase is a class method: it builds a value and touches no object.
BuildCoinbase(height, extra_script_sig) ==
  /\ op' = Call("coinbase", extra_script_sig, FALSE, height)
  /\ exc' = "None"
  /\ ret' = Some(coinbase(height, extra_script_sig))
  /\ UNCHANGED << attrs, parsed, mutated, lastHash >>

NextCoinbase == \E h \in Heights, e \in Extras : BuildCoinbase(h, e)

SpecCoinbase == Init /\ [][NextCoinbase]_vars

(***************************************************************************)
(* Properties                                                              *)
(***************************************************************************)

\* The fields a serialization is made of.
fields == << version, inputs, outputs, locktime >>

\* Whether the count or length at the head of bs is written in its shortest
\* form: encoding the value read gives back the bytes it was read from.
ShortestVarint(bs) ==
  LET d == varlen_decode(bs)
  IN  d.ok /\ varlen_encode(d.val) = Slice(bs, 0, Len(bs) - Len(d.rest))

RECURSIVE ShortestInputs(_, _)
\* Walks i inputs of the wire format: whether every scriptSig length is in
\* shortest form, and the bytes after the inputs.
ShortestInputs(data, i) ==
  IF i = 0 \/ data = << >> THEN [ok |-> TRUE, data |-> data]
  ELSE LET at   == SliceFrom(data, 36)
           d    == varlen_decode(at)
           next == ShortestInputs(SliceFrom(d.rest, AsIndex(d.val) + 4), i - 1)
       IN  [ok |-> ShortestVarint(at) /\ next.ok, data |-> next.data]

RECURSIVE ShortestOutputs(_, _)
ShortestOutputs(data, i) ==
  IF i = 0 \/ data = << >> THEN TRUE
  ELSE LET at == SliceFrom(data, 8)
           d  == varlen_decode(at)
       IN  ShortestVarint(at) /\ ShortestOutputs(SliceFrom(d.rest, AsIndex(d.val)), i - 1)

\* Every count and length of the well-formed buffer b is in shortest form.
ShortestForm(b) ==
  LET ic  == varlen_decode(SliceFrom(b, 4))
      ins == ShortestInputs(ic.rest, AsIndex(ic.val))
      oc  == varlen_decode(ins.data)
  IN  /\ ShortestVarint(SliceFrom(b, 4))
      /\ ins.ok
      /\ ShortestVarint(ins.data)
      /\ ShortestOutputs(oc.rest, AsIndex(oc.val))

C2_HashFollowsFields ==
  [][op'.name = "hash" =>
       /\ mutated' => (exc' = "None" /\ ret' = Some(sha256(sha256(Packed(Self).data))))
       /\ lastHash # None => ret' = lastHash]_vars

\* The two halves assemble(split=True) returned, joined, are the bytes
\* assemble(split=False) returns.
SplitJoins == ret[1][1] \o ret[1][2] = Packed(Self).data

\* The second half starts with the last input's scriptSig, and the first half
\* ends with that scriptSig's length prefix.
SplitsAtLastScript ==
  LET last   == inputs[Len(inputs)]
      prefix == ret[1][1]
      suffix == ret[1][2]
      len    == varlen_encode(Num(Len(last.script_sig)))
      after  == last.script_sig \o pack("<L", last.seqno)
                  \o PackOutputs(outputs, 1, varlen_encode(Num(Len(outputs))))
                  \o pack("<L", locktime)
  IN  /\ suffix = after
      /\ Len(prefix) >= Len(len)
      /\ SliceFrom(prefix, Len(prefix) - Len(len)) = len

HasTrailingData(b) ==
  \E w \in WellFormed : Len(w) < Len(b) /\ SubSeq(b, 1, Len(w)) = w

\* b is a well-formed buffer cut short.
IsTruncated(b) ==
  b # << >> /\ \E w \in WellFormed : Len(b) < Len(w) /\ SubSeq(w, 1, Len(b)) = b

\* C4: disassemble of a well-formed buffer followed by extra bytes fails with
\* MalformedInput (the assertion of line 115); it never returns.
C4_TrailingRejected ==
  (op.name = "disassemble" /\ HasTrailingData(op.raw)) => exc = "MalformedInput"

\* C4 witness: TxA's buffer with one more byte was refused.
C4_Witness ==
  /\ op.name = "disassemble"
  /\ op.raw = WireForm(TxA, 0) \o << 0 >>
  /\ HasTrailingData(op.raw)
  /\ exc = "MalformedInput"

\* C5: disassemble of a buffer that ends inside a field fails with
\* TruncatedInput, and a disassemble that returns has read every prevout hash
\* in full and was given no truncated buffer.
C5_TruncatedRejected ==
  /\ (op.name = "disassemble" /\ IsTruncated(op.raw)) => exc = "TruncatedInput"
  /\ (op.name = "disassemble" /\ exc = "None")
       => /\ ~IsTruncated(op.raw)
          /\ \A k \in 1..Len(inputs) : Len(inputs[k].prevout_hash) = 32

\* C5 witness: the buffer that declares a 40-byte scriptSig and holds 10 bytes
\* of it was refused.
C5_Witness ==
  /\ op.name = "disassemble"
  /\ op.raw = SubSeq(WireForm(Tx40, 0), 1, 4 + 1 + 32 + 4 + 1 + 10)
  /\ IsTruncated(op.raw)
  /\ exc = "TruncatedInput"

\* C6, as claimed: a disassemble that fails leaves version, inputs, outputs,
\* locktime, the cached raw bytes and the cached hash as they were.
C6_FailureLeavesObject ==
  [][(op'.name = "disassemble" /\ exc' # "None") => UNCHANGED attrs]_vars

\* C7, as claimed: after a successful disassemble of b, with the buffer
\* dropped or kept, raw and hash return what they return on the object that
\* kept the buffer: b and the double SHA-256 of b.
C7_DumpRawUnobservable ==
  (parsed # None /\ op.name \in {"raw", "hash"})
    => LET kept == disassemble(NewTransaction(parsed[1]), parsed[1], FALSE).self
       IN  /\ exc = "None"
           /\ op.name = "raw" => ret = raw(kept).ret
           /\ op.name = "hash" => ret = hash(kept).ret

\* C8: is_coinbase returns whether the first input's prevout_hash is 32 zero
\* bytes, whatever the other inputs hold, and changes nothing of the record.
C8_IsCoinbase ==
  [][op'.name = "is_coinbase" =>
       /\ UNCHANGED attrs
       /\ inputs # << >> =>
            /\ exc' = "None"
            /\ ret' = Some(/\ Len(inputs[1].prevout_hash) = 32
                           /\ \A i \in 1..32 : inputs[1].prevout_hash[i] = 0)]_vars

\* C8 witness: is_coinbase returned True for a record whose second input is
\* not null.
C8_Witness ==
  /\ op.name = "is_coinbase" /\ exc = "None" /\ ret = Some(TRUE)
  /\ Len(inputs) = 2
  /\ \E i \in 1..32 : inputs[2].prevout_hash[i] # 0

RECURSIVE LittleEndianValue(_)
\* The number a little-endian base-256 byte string stands for.
LittleEndianValue(bs) ==
  IF bs = << >> THEN 0 ELSE Head(bs) + 256 * LittleEndianValue(Tail(bs))

\* C9: Input.coinbase(h, e) is the null prevout, index 0xFFFFFFFF, sequence
\* number 0 and the script [n] + L + e, L the minimal little-endian bytes of h
\* and n their number; 0, 1, 255 and 256 give 00, 01 01, 01 FF and 02 00 01.
C9_Coinbase ==
  op.name = "coinbase" =>
    LET inp    == ret[1]
        h      == op.height
        e      == op.raw
        script == inp.script_sig
        n      == script[1]
        L      == Slice(script, 1, 1 + n)
    IN  /\ Len(inp.prevout_hash) = 32
        /\ \A i \in 1..32 : inp.prevout_hash[i] = 0
        /\ inp.prevout_idx = << 65535, 65535 >>
        /\ inp.seqno = Num(0)
        /\ Len(script) = 1 + n + Len(e)
        /\ Len(L) = n
        /\ SliceFrom(script, 1 + n) = e
        /\ LittleEndianValue(L) = h
        /\ n > 0 => L[n] # 0
        /\ h = 0 => script = << 0 >> \o e
        /\ h = 1 => script = << 1, 1 >> \o e
        /\ h = 255 => script = << 1, 255 >> \o e
        /\ h = 256 => script = << 2, 0, 1 >> \o e

\* C9 witness: the coinbase input of height 256 with an extra script.
C9_Witness ==
  /\ op.name = "coinbase" /\ op.height = 256 /\ op.raw = << 7, 0 >>
  /\ ret[1].script_sig = << 2, 0, 1, 7, 0 >>

\* The bytes an assemble call produced, from what it returned.
Produced(returned, split, ins) ==
  IF ~split THEN returned
  ELSE IF ins = << >> THEN returned[1]
  ELSE returned[1] \o returned[2]

\* C10: every assemble stores the bytes it produced as the cached raw bytes
\* and clears the cached hash without changing version, inputs, outputs or
\* locktime, and a hash access right after it returns the double SHA-256 of
\* those bytes.
C10_AssembleCaches ==
  [][/\ op'.name = "assemble" =>
          /\ exc' = "None"
          /\ UNCHANGED fields
          /\ _hash' = None
          /\ _raw' = Some(Produced(ret'[1], op'.flag, inputs))
     /\ (op.name = "assemble" /\ op'.name = "hash") =>
          /\ exc' = "None"
          /\ ret' = Some(sha256(sha256(_raw[1])))]_vars

\* C10 witness: assemble cleared a cached hash that was not the hash of the
\* bytes it produced.
C10_Witness ==
  /\ op.name = "assemble"
  /\ lastHash # None
  /\ lastHash # Some(sha256(sha256(_raw[1])))
  /\ _hash = None

====
